---- MODULE Spec2Model ----
(***************************************************************************)
(* Model of art/utils.py: projection(v, eps, p), which clips a batch of    *)
(* perturbations to an L_p ball, and random_sphere(m, n, r, norm), which   *)
(* samples a batch of points from an L_p ball.                             *)
(*                                                                         *)
(* Floating-point values are modelled as exact rationals <<num, den>> in   *)
(* lowest terms with den > 0, extended with the three IEEE-754 special     *)
(* values the code can produce: +inf = <<1, 0>>, -inf = <<-1, 0>> and      *)
(* NaN = <<0, 0>>.  Rounding is not modelled; division by zero, inf and    *)
(* NaN propagate as numpy propagates them.  A row of a batch is modelled   *)
(* flattened (the code reshapes every row to one axis before reducing).    *)
(***************************************************************************)
EXTENDS Integers, Sequences, FiniteSets, TLC

\* call:   the routine whose call the state describes ("idle" between calls)
\* args:   the arguments of that call
\* draws:  the values the call obtained from np.random and gammainc
\* locals: the intermediate arrays of the call
\* ret:    what the call returned or raised
\* ret2:   what projection returned when applied again to ret (same eps, p)
VARIABLES call, args, draws, locals, ret, ret2

vars == <<call, args, draws, locals, ret, ret2>>

(***************************************************************************)
(* Bounds of the model.                                                    *)
(***************************************************************************)
\* Entries of the first row of an input batch of projection: -MaxEntry..MaxEntry.
MaxEntry == 5
\* Random draws of random_sphere fall on the grid of multiples of 1/GridDen.
GridDen == 2

(***************************************************************************)
(* Extended rational arithmetic (numpy float64 without rounding).          *)
(***************************************************************************)
IntAbs(x) == IF x < 0 THEN -x ELSE x

IntSign(x) == IF x < 0 THEN -1 ELSE IF x = 0 THEN 0 ELSE 1

RECURSIVE GCD(_, _)
GCD(x, y) == IF y = 0 THEN x ELSE GCD(y, x % y)

\* The number num/den in canonical form; den = 0 gives inf, -inf or NaN.
Q(num, den) ==
    IF den = 0 THEN <<IntSign(num), 0>>
    ELSE LET s == IF den < 0 THEN -1 ELSE 1
             g == GCD(IntAbs(num), IntAbs(den))
         IN <<(s * num) \div g, (s * den) \div g>>

Zero == <<0, 1>>
One == <<1, 1>>
Two == <<2, 1>>
Inf == <<1, 0>>
NegInf == <<-1, 0>>
NaN == <<0, 0>>

IsNaN(x) == x = NaN
IsFinite(x) == x[2] # 0

Mul(x, y) == Q(x[1] * y[1], x[2] * y[2])

Div(x, y) == Q(x[1] * y[2], x[2] * y[1])

Add(x, y) ==
    IF IsNaN(x) \/ IsNaN(y) THEN NaN
    ELSE IF ~IsFinite(x) /\ ~IsFinite(y) THEN (IF x = y THEN x ELSE NaN)
    ELSE IF ~IsFinite(x) THEN x
    ELSE IF ~IsFinite(y) THEN y
    ELSE LET g == GCD(x[2], y[2])
         IN Q(x[1] * (y[2] \div g) + y[1] * (x[2] \div g), (x[2] \div g) * y[2])

Neg(x) == <<-x[1], x[2]>>

Sub(x, y) == Add(x, Neg(y))

\* x <= y as IEEE compares: false as soon as one side is NaN.
Leq(x, y) ==
    IF IsNaN(x) \/ IsNaN(y) THEN FALSE
    ELSE IF ~IsFinite(x) /\ ~IsFinite(y) THEN x[1] <= y[1]
    ELSE x[1] * y[2] <= y[1] * x[2]

Lt(x, y) == Leq(x, y) /\ x # y

\* Integer square root (floor).
ISqrt(k) == CHOOSE s \in 0..k : s * s <= k /\ (s + 1) * (s + 1) > k

IsSquare(x) ==
    IsFinite(x) /\ x[1] >= 0 /\ ISqrt(x[1]) * ISqrt(x[1]) = x[1]
                /\ ISqrt(x[2]) * ISqrt(x[2]) = x[2]

\* np.sqrt, on the values whose root is rational (and on inf, NaN, negatives).
Sqrt(x) ==
    IF IsNaN(x) \/ x[1] < 0 THEN NaN
    ELSE IF ~IsFinite(x) THEN Inf
    ELSE Q(ISqrt(x[1]), ISqrt(x[2]))

\* abs, np.sign, np.minimum, np.maximum and np.clip on one element.
abs(x) == <<IntAbs(x[1]), x[2]>>

sign(x) == IF IsNaN(x) THEN NaN ELSE <<IntSign(x[1]), 1>>

minimum(x, y) == IF IsNaN(x) \/ IsNaN(y) THEN NaN ELSE IF Leq(x, y) THEN x ELSE y

maximum(x, y) == IF IsNaN(x) \/ IsNaN(y) THEN NaN ELSE IF Leq(x, y) THEN y ELSE x

clip(x, a_min, a_max) == minimum(maximum(x, a_min), a_max)

RECURSIVE SumSeq(_)
SumSeq(s) == IF s = <<>> THEN Zero ELSE Add(Head(s), SumSeq(Tail(s)))

(***************************************************************************)
(* projection(v, eps, p)                                                   *)
(***************************************************************************)
\* tol = 10e-8
tol == Q(1, 10000000)

Array(val) == [kind |-> "array", val |-> val]

Raise(exc) == [kind |-> exc, val |-> <<>>]

NoLocals == [norm |-> <<>>, divisor |-> <<>>, quotient |-> <<>>, scale |-> <<>>, A |-> <<>>]

\* Which branch of projection's if/elif chain the value of p selects.
projection_branch_fallback(p) ==
    IF p = Inf THEN "inf" ELSE IF p = One THEN "l1" ELSE "l2"

projection_branch(p) ==
    IF p = Inf THEN "inf"
    ELSE IF p = One THEN "l1"
    ELSE IF p = Two THEN "l2"
    ELSE "raise"

\* np.sign(v) * np.minimum(abs(v), eps), on one element x of v.
clip_inf_maximum(x, eps) == Mul(sign(x), maximum(abs(x), eps))

clip_inf(x, eps) == Mul(sign(x), minimum(abs(x), eps))

\* np.linalg.norm(v.reshape(reshape_dim), axis=1, ord=ord)[i]: the norm of
\* row i over all its (flattened) entries; ord = 2 stands for the default.
SumAbs(row) == SumSeq([j \in DOMAIN row |-> abs(row[j])])

SumSq(row) == SumSeq([j \in DOMAIN row |-> Mul(row[j], row[j])])

RECURSIVE Flatten(_)
Flatten(v) == IF v = <<>> THEN <<>> ELSE Head(v) \o Flatten(Tail(v))

linalg_norm_no_axis(v, i, ord) ==
    IF ord = 1 THEN SumAbs(Flatten(v)) ELSE Sqrt(SumSq(Flatten(v)))

linalg_norm(v, i, ord) ==
    IF ord = 1 THEN SumAbs(v[i]) ELSE Sqrt(SumSq(v[i]))

\* np.clip(norm, tol, norm), on the norm x of one row.
clip_norm(x) == clip(x, tol, x)

\* norm = eps / <clipped norm d>; norm = np.clip(norm, norm, 1.0), for one row.
scale_factor_inverted(eps, d) == LET q == Div(d, eps) IN clip(q, q, One)

scale_factor_unclamped(eps, d) == LET q == Div(eps, d) IN clip(q, One, q)

scale_factor(eps, d) == LET q == Div(eps, d) IN clip(q, q, One)

\* The call as a whole: the returned value (or the exception raised) and
\* the per-row intermediates.
projection(v, eps, p) ==
    LET br == projection_branch(p) IN
    IF br = "inf" THEN
        [ret |-> Array([i \in DOMAIN v |->
                          [j \in DOMAIN v[i] |-> clip_inf(v[i][j], eps)]]),
         locals |-> NoLocals]
    ELSE IF br = "raise" THEN
        [ret |-> Raise("NotImplementedError"), locals |-> NoLocals]
    ELSE
        LET nrm == [i \in DOMAIN v |-> linalg_norm(v, i, IF br = "l1" THEN 1 ELSE 2)]
            dv == [i \in DOMAIN v |-> clip_norm(nrm[i])]
            qt == [i \in DOMAIN v |-> Div(eps, dv[i])]
            sc == [i \in DOMAIN v |-> scale_factor(eps, dv[i])]
        IN [ret |-> Array([i \in DOMAIN v |->
                             [j \in DOMAIN v[i] |-> Mul(v[i][j], sc[i])]]),
            locals |-> [NoLocals EXCEPT !.norm = nrm, !.divisor = dv,
                                         !.quotient = qt, !.scale = sc]]

(***************************************************************************)
(* random_sphere(m, n, r, norm)                                            *)
(***************************************************************************)
\* Which branch of random_sphere's if/elif chain the value of norm selects.
random_sphere_branch(norm) ==
    IF norm = One THEN "l1"
    ELSE IF norm = Two THEN "l2"
    ELSE IF norm = Inf THEN "inf"
    ELSE "raise"

\* The values a draw can take: the multiples of 1/GridDen in [-1, 1].
Grid == {Q(k, GridDen) : k \in -GridDen..GridDen}

\* np.random.uniform(low, high): a value of [low, high] (numpy documents that
\* rounding can return high itself; low when low = high).
uniform(low, high) == {x \in Grid : Leq(low, x) /\ Leq(x, high)}

\* np.random.uniform(0, r**2): the values of [0, r**2] with a rational root.
uniform_squares(r) == {Mul(x, x) : x \in uniform(Zero, r)}

\* np.sort of a one-axis array.
RECURSIVE insert(_, _)
insert(x, s) ==
    IF s = <<>> THEN <<x>>
    ELSE IF Leq(x, Head(s)) THEN <<x>> \o s
    ELSE <<Head(s)>> \o insert(x, Tail(s))

RECURSIVE sort_rec(_)
sort_rec(s) == IF s = <<>> THEN <<>> ELSE insert(Head(s), sort_rec(Tail(s)))

sort_omitted(s) == s

sort(s) == sort_rec(s)

\* The size argument of np.random.choice([-1, 1], (m, n)).
choice_size_shared(m, n) == <<1, n>>

choice_size(m, n) == <<m, n>>

\* Row i of an array broadcast against a batch: a one-row array serves every row.
broadcast_row(M, i) == IF Len(M) = 1 THEN M[1] ELSE M[i]

\* The values np.random.randn is drawn from in the model.
randn_values == {-4, -3, 0, 1, 3}

\* gammainc(n/2.0, s2/2.0)**(1/n): the regularized lower incomplete gamma
\* function is 0 at s2 = 0 and lies in [0, 1] elsewhere.
gammainc_root(s2) == IF s2 = Zero THEN {Zero} ELSE uniform(Zero, One)

\* The L1 branch, given the draws U (of uniform(0, r**2, m)), cuts (row i:
\* the n-1 draws of uniform(0, A[i, -1])) and sgn (of np.random.choice).
random_sphere_l1(m, n, U, cuts, sgn) ==
    IF m >= 1 /\ n = 0 THEN
        \* np.random.uniform(0, A[i, -1], -1): negative dimensions
        [ret |-> Raise("ValueError"), A |-> <<>>]
    ELSE
        LET A == [i \in 1..m |-> <<Zero>> \o sort(cuts[i]) \o <<Sqrt(U[i])>>]
        IN [ret |-> Array([i \in 1..m |-> [j \in 1..n |->
                      Mul(Sub(A[i][j + 1], A[i][j]), broadcast_row(sgn, i)[j])]]),
            A |-> A]

\* The L2 branch, given the draws a (of randn(m, n)) and gam (row i: the
\* value of gammainc(n/2.0, s2[i]/2.0)**(1/n)).
random_sphere_l2(m, n, r, a, gam) ==
    IF n = 0 THEN
        \* 1/n
        Raise("ZeroDivisionError")
    ELSE
        LET s2 == [i \in 1..m |-> SumSq(a[i])]
            base == [i \in 1..m |-> Div(Mul(gam[i], r), Sqrt(s2[i]))]
        IN Array([i \in 1..m |-> [j \in 1..n |-> Mul(a[i][j], base[i])]])

(***************************************************************************)
(* Inputs of the calls.                                                    *)
(***************************************************************************)
Int2Q(k) == Q(k, 1)

\* Rows of two entries; the first row of a batch ranges over all of them.
Rows == {<<Int2Q(x), Int2Q(y)>> : x \in -MaxEntry..MaxEntry, y \in -MaxEntry..MaxEntry}

\* The second row of a two-row batch.
OtherRows == {<<Zero, Zero>>, <<Zero, One>>, <<Int2Q(3), Int2Q(-4)>>,
              <<One, Int2Q(-1)>>, <<Int2Q(6), Int2Q(8)>>}

Batches == {<<row>> : row \in Rows} \cup {<<row, other>> : row \in Rows, other \in OtherRows}

\* eps: the radii of the spec's scenarios, and 0 and a negative value.
EpsValues == {Int2Q(-1), Zero, Two, Q(5, 2), Int2Q(5)}

\* p and norm: the three supported norms and two unsupported values.
NormValues == {One, Two, Inf, Int2Q(3), Zero}

\* The Euclidean norm of every row is rational (the model's Sqrt is exact).
Representable(v) == \A i \in DOMAIN v : IsSquare(SumSq(v[i]))

\* (m, n) of a random_sphere call.
Shapes == {<<0, 0>>, <<0, 1>>, <<0, 2>>, <<1, 0>>, <<2, 0>>,
           <<1, 1>>, <<1, 2>>, <<2, 1>>, <<2, 2>>, <<1, 3>>}

Radii == {Q(1, 2), One}

NoDraws == [U |-> <<>>, cuts |-> <<>>, signs |-> <<>>, a |-> <<>>, gam |-> <<>>]

(***************************************************************************)
(* The state machine: one call at a time, from the idle state.             *)
(***************************************************************************)
Init ==
    /\ call = "idle"
    /\ args = <<>>
    /\ draws = NoDraws
    /\ locals = NoLocals
    /\ ret = Raise("none")
    /\ ret2 = Raise("none")

\* A call projection(v, eps, p).
Projection ==
    /\ call = "idle"
    /\ \E v \in Batches, eps \in EpsValues, p \in NormValues :
         /\ projection_branch(p) = "l2" => Representable(v)
         /\ args' = [v |-> v, eps |-> eps, p |-> p]
         /\ ret' = projection(v, eps, p).ret
         /\ locals' = projection(v, eps, p).locals
    /\ call' = "projection"
    /\ UNCHANGED <<draws, ret2>>

\* The caller projects the returned batch again: projection(ret, eps, p).
ProjectionAgain ==
    /\ call = "projection"
    /\ ret.kind = "array"
    /\ ret2' = projection(ret.val, args.eps, args.p).ret
    /\ call' = "projection_again"
    /\ UNCHANGED <<args, draws, locals, ret>>

\* A call random_sphere(m, n, r, 1).
RandomSphereL1 ==
    /\ call = "idle"
    /\ \E shape \in Shapes, r \in Radii, norm \in NormValues :
         LET m == shape[1]
             n == shape[2]
             nc == IF n = 0 THEN 0 ELSE n - 1
             sz == choice_size(m, n)
         IN /\ random_sphere_branch(norm) = "l1"
            /\ \E U \in [1..m -> uniform_squares(r)] :
               \E cuts \in [1..m -> [1..nc -> Grid]] :
               \E sgn \in [1..sz[1] -> [1..sz[2] -> {Int2Q(-1), One}]] :
                 /\ \A i \in 1..m : \A k \in 1..nc :
                        cuts[i][k] \in uniform(Zero, Sqrt(U[i]))
                 /\ args' = [m |-> m, n |-> n, r |-> r, norm |-> norm]
                 /\ draws' = [NoDraws EXCEPT !.U = U, !.cuts = cuts, !.signs = sgn]
                 /\ ret' = random_sphere_l1(m, n, U, cuts, sgn).ret
                 /\ locals' = [NoLocals EXCEPT !.A = random_sphere_l1(m, n, U, cuts, sgn).A]
    /\ call' = "random_sphere"
    /\ UNCHANGED ret2

\* A call random_sphere(m, n, r, 2).
RandomSphereL2 ==
    /\ call = "idle"
    /\ \E shape \in Shapes, r \in Radii, norm \in NormValues :
         LET m == shape[1]
             n == shape[2]
         IN /\ random_sphere_branch(norm) = "l2"
            /\ \E a \in [1..m -> [1..n -> {Int2Q(x) : x \in randn_values}]] :
                 /\ Representable(a)
                 /\ \E gam \in [1..m -> uniform(Zero, One)] :
                      /\ \A i \in 1..m : gam[i] \in gammainc_root(SumSq(a[i]))
                      /\ args' = [m |-> m, n |-> n, r |-> r, norm |-> norm]
                      /\ draws' = [NoDraws EXCEPT !.a = a, !.gam = gam]
                      /\ ret' = random_sphere_l2(m, n, r, a, gam)
    /\ call' = "random_sphere"
    /\ UNCHANGED <<locals, ret2>>

\* A call random_sphere(m, n, r, np.inf): res = np.random.uniform(-r, r, (m, n)).
RandomSphereInf ==
    /\ call = "idle"
    /\ \E shape \in Shapes, r \in Radii, norm \in NormValues :
         /\ random_sphere_branch(norm) = "inf"
         /\ \E res \in [1..shape[1] -> [1..shape[2] -> uniform(Neg(r), r)]] :
              /\ args' = [m |-> shape[1], n |-> shape[2], r |-> r, norm |-> norm]
              /\ ret' = Array(res)
    /\ call' = "random_sphere"
    /\ UNCHANGED <<draws, locals, ret2>>

\* A call random_sphere(m, n, r, norm) with any other norm.
RandomSphereRaise ==
    /\ call = "idle"
    /\ \E shape \in Shapes, r \in Radii, norm \in NormValues :
         /\ random_sphere_branch(norm) = "raise"
         /\ args' = [m |-> shape[1], n |-> shape[2], r |-> r, norm |-> norm]
         /\ ret' = Raise("NotImplementedError")
    /\ call' = "random_sphere"
    /\ UNCHANGED <<draws, locals, ret2>>

\* The call is over; the routines keep no state between calls.
Return ==
    /\ call # "idle"
    /\ call' = "idle"
    /\ args' = <<>>
    /\ draws' = NoDraws
    /\ locals' = NoLocals
    /\ ret' = Raise("none")
    /\ ret2' = Raise("none")

Next ==
    \/ Projection
    \/ ProjectionAgain
    \/ RandomSphereL1
    \/ RandomSphereL2
    \/ RandomSphereInf
    \/ RandomSphereRaise
    \/ Return

Spec == Init /\ [][Next]_vars

(***************************************************************************)
(* Vocabulary of the properties.                                           *)
(***************************************************************************)
SupportedNorms == {One, Two, Inf}

\* The p-norm of row is at most radius (the L2 norm is compared squared).
InBall(row, p, radius) ==
    IF p = One THEN Leq(SumAbs(row), radius)
    ELSE IF p = Two THEN Leq(Zero, radius) /\ Leq(SumSq(row), Mul(radius, radius))
    ELSE \A j \in DOMAIN row : Leq(abs(row[j]), radius)

\* The p-norm of row is exactly radius.
OnSphere(row, p, radius) ==
    IF p = One THEN SumAbs(row) = radius
    ELSE IF p = Two THEN Leq(Zero, radius) /\ SumSq(row) = Mul(radius, radius)
    ELSE /\ \A j \in DOMAIN row : Leq(abs(row[j]), radius)
         /\ \E j \in DOMAIN row : abs(row[j]) = radius

ProjectionReturned ==
    /\ call = "projection"
    /\ Lt(Zero, args.eps)
    /\ args.p \in SupportedNorms

IsZeroBatch(v) == \A i \in DOMAIN v : \A j \in DOMAIN v[i] : v[i][j] = Zero

(***************************************************************************)
(* C1: for eps > 0 and p in {1, 2, inf}, every row of the batch that       *)
(* projection returns has p-norm at most eps.                              *)
(***************************************************************************)
C1_NormBounded ==
    ProjectionReturned =>
        /\ ret.kind = "array"
        /\ Len(ret.val) = Len(args.v)
        /\ \A i \in DOMAIN ret.val : InBall(ret.val[i], args.p, args.eps)

\* Some row outside the ball, for the L-infinity norm, was brought into it.
C1_Witness ==
    /\ ProjectionReturned
    /\ args.p = Inf
    /\ \E i \in DOMAIN args.v :
         /\ ~InBall(args.v[i], args.p, args.eps)
         /\ InBall(ret.val[i], args.p, args.eps)

(***************************************************************************)
(* C2: for eps > 0 and p in {1, 2, inf}, a row whose p-norm is already at  *)
(* most eps is returned unchanged, whatever the other rows of the batch.   *)
(***************************************************************************)
C2_InteriorIdentity ==
    ProjectionReturned =>
        \A i \in DOMAIN args.v :
            InBall(args.v[i], args.p, args.eps) => ret.val[i] = args.v[i]

\* A non-zero row inside the ball kept, beside a row outside the ball scaled.
C2_Witness ==
    /\ ProjectionReturned
    /\ args.p \in {One, Two}
    /\ Len(args.v) = 2
    /\ ~IsZeroBatch(<<args.v[1]>>)
    /\ InBall(args.v[1], args.p, args.eps)
    /\ ~InBall(args.v[2], args.p, args.eps)
    /\ ret.val[1] = args.v[1]
    /\ ret.val[2] # args.v[2]

(***************************************************************************)
(* C3: for eps > 0 and p in {1, 2, inf}, projecting the projected batch    *)
(* again returns the projected batch.                                      *)
(***************************************************************************)
C3_Idempotent ==
    (/\ call = "projection_again"
     /\ Lt(Zero, args.eps)
     /\ args.p \in SupportedNorms) => ret2 = ret

\* The first projection changed the batch and the second did not.
C3_Witness ==
    /\ call = "projection_again"
    /\ Lt(Zero, args.eps)
    /\ args.p = Two
    /\ ret.val # args.v
    /\ ret2 = ret

(***************************************************************************)
(* C4: projecting an all-zero batch returns the all-zero batch, with no    *)
(* NaN entry, for every eps and every p in {1, 2, inf}.                    *)
(***************************************************************************)
C4_ZeroFixedPoint ==
    (/\ call = "projection"
     /\ args.p \in SupportedNorms
     /\ IsZeroBatch(args.v)) => ret = Array(args.v)

(***************************************************************************)
(* C5: with p (norm) outside {1, 2, inf}, projection and random_sphere     *)
(* raise NotImplementedError and return no array.                          *)
(***************************************************************************)
C5_UnsupportedNorm ==
    /\ (call = "projection" /\ args.p \notin SupportedNorms)
          => ret = Raise("NotImplementedError")
    /\ (call = "random_sphere" /\ args.norm \notin SupportedNorms)
          => ret = Raise("NotImplementedError")

\* projection was called with p = 3 and raised.
C5_Witness ==
    /\ call = "projection"
    /\ args.p = Int2Q(3)
    /\ ret.kind = "NotImplementedError"

(***************************************************************************)
(* C6 as stated: for m, n >= 1, r > 0, p in {1, 2, inf} and every outcome  *)
(* of the random draws, every row of random_sphere's result has p-norm at  *)
(* most r.                                                                 *)
(***************************************************************************)
SamplerReturned ==
    /\ call = "random_sphere"
    /\ args.m >= 1
    /\ args.n >= 1
    /\ Lt(Zero, args.r)
    /\ args.norm \in SupportedNorms

C6_ContainmentEveryDraw ==
    SamplerReturned =>
        /\ ret.kind = "array"
        /\ \A i \in DOMAIN ret.val : InBall(ret.val[i], args.norm, args.r)

(***************************************************************************)
(* C6 amended: the same, for every outcome of the random draws in which,   *)
(* for p = 2, no row of the normal draw is all zeros (s2 > 0); for p = 1   *)
(* the absolute gaps of a row sum to its last cut point B <= r.            *)
(***************************************************************************)
C6_Containment ==
    (/\ SamplerReturned
     /\ args.norm = Two => \A i \in DOMAIN draws.a : SumSq(draws.a[i]) # Zero) =>
        /\ ret.kind = "array"
        /\ Len(ret.val) = args.m
        /\ \A i \in DOMAIN ret.val : InBall(ret.val[i], args.norm, args.r)
        /\ args.norm = One =>
              \A i \in DOMAIN ret.val :
                  /\ SumAbs(ret.val[i]) = Sqrt(draws.U[i])
                  /\ Leq(Sqrt(draws.U[i]), args.r)

\* An L1 sample of three coordinates whose two inner cut points were drawn
\* in decreasing order, and whose norm is the radius.
C6_Witness ==
    /\ SamplerReturned
    /\ args.norm = One
    /\ args.n = 3
    /\ Lt(draws.cuts[1][2], draws.cuts[1][1])
    /\ OnSphere(ret.val[1], One, args.r)

(***************************************************************************)
(* C7: in projection with eps > 0 and p in {1, 2}, the divisor of          *)
(* eps / norm is at least tol for every row, and the quotient is neither   *)
(* inf nor NaN.                                                            *)
(***************************************************************************)
C7_DivisorFloored ==
    (ProjectionReturned /\ args.p \in {One, Two}) =>
        \A i \in DOMAIN args.v :
            /\ Leq(tol, locals.divisor[i])
            /\ IsFinite(locals.quotient[i])

(***************************************************************************)
(* C8: random_sphere with m = 0 or n = 0 fails with an error for each of   *)
(* the three norms; it never returns an array.                             *)
(***************************************************************************)
C8_DegenerateRejected ==
    (/\ call = "random_sphere"
     /\ args.m = 0 \/ args.n = 0
     /\ args.norm \in SupportedNorms) => ret.kind # "array"

(***************************************************************************)
(* C9: for eps > 0 projection agrees with the reference projector: for     *)
(* p = inf every entry x becomes sign(x) * min(|x|, eps); for p in {1, 2}  *)
(* every row is multiplied by min(1, eps / norm_p(row)), a factor in       *)
(* (0, 1], so a row of norm above eps lands on the sphere of radius eps.   *)
(***************************************************************************)
ReferenceEntryInf(x, radius) ==
    IF Leq(abs(x), radius) THEN x
    ELSE IF Lt(Zero, x) THEN radius ELSE Neg(radius)

\* The row's image under the reference projector for p in {1, 2}: the row
\* itself inside the ball, else the row's multiple s * row, 0 < s < 1, of
\* norm radius.
IsReferenceRow(row, image, p, radius, s) ==
    IF InBall(row, p, radius) THEN image = row /\ s = One
    ELSE /\ Lt(Zero, s) /\ Lt(s, One)
         /\ image = [j \in DOMAIN row |-> Mul(row[j], s)]
         /\ OnSphere(image, p, radius)
         /\ p = One => s = Div(radius, SumAbs(row))
         /\ p = Two => Mul(s, s) = Div(Mul(radius, radius), SumSq(row))

C9_Scenarios ==
    /\ (args.v = <<<<Int2Q(3), Int2Q(-5)>>>> /\ args.eps = Two /\ args.p = Inf)
          => ret.val = <<<<Two, Int2Q(-2)>>>>
    /\ (args.v = <<<<Int2Q(3), Int2Q(4)>>>> /\ args.eps = Q(5, 2) /\ args.p = Two)
          => ret.val = <<<<Q(3, 2), Two>>>>
    /\ (args.v = <<<<Int2Q(3), Int2Q(4)>>>> /\ args.eps = Int2Q(5) /\ args.p = Two)
          => ret.val = args.v

C9_ReferenceProjector ==
    ProjectionReturned =>
        /\ ret.kind = "array"
        /\ DOMAIN ret.val = DOMAIN args.v
        /\ args.p = Inf =>
              \A i \in DOMAIN args.v : \A j \in DOMAIN args.v[i] :
                  ret.val[i][j] = ReferenceEntryInf(args.v[i][j], args.eps)
        /\ args.p # Inf =>
              \A i \in DOMAIN args.v :
                  IsReferenceRow(args.v[i], ret.val[i], args.p, args.eps, locals.scale[i])
        /\ C9_Scenarios

\* The L2 scenario [[3, 4]], eps = 2.5 -> [[1.5, 2.0]].
C9_Witness ==
    /\ ProjectionReturned
    /\ args.v = <<<<Int2Q(3), Int2Q(4)>>>>
    /\ args.eps = Q(5, 2)
    /\ args.p = Two
    /\ ret.val = <<<<Q(3, 2), Two>>>>
    /\ locals.scale = <<Q(1, 2)>>

(***************************************************************************)
(* C10: in random_sphere(m, n, r, 1) every row holds the n gaps between    *)
(* its own nondecreasing cut points 0 <= c_1 <= ... <= c_(n-1) <= B, each  *)
(* multiplied by a sign of {-1, +1} drawn for that row and coordinate: the *)
(* sign draw has one entry per coordinate per row.                         *)
(***************************************************************************)
C10_L1GapsAndSigns ==
    (/\ call = "random_sphere"
     /\ args.norm = One
     /\ ret.kind = "array") =>
        /\ Len(ret.val) = args.m
        /\ Len(draws.signs) = args.m
        /\ \A i \in 1..args.m :
              /\ Len(draws.signs[i]) = args.n
              /\ Len(locals.A[i]) = args.n + 1
              /\ locals.A[i][1] = Zero
              /\ locals.A[i][args.n + 1] = Sqrt(draws.U[i])
              /\ \A j \in 1..args.n :
                    /\ Leq(locals.A[i][j], locals.A[i][j + 1])
                    /\ draws.signs[i][j] \in {Int2Q(-1), One}
                    /\ ret.val[i][j] = Mul(Sub(locals.A[i][j + 1], locals.A[i][j]),
                                           draws.signs[i][j])

\* Two rows with opposite signs in the same coordinate.
C10_Witness ==
    /\ call = "random_sphere"
    /\ args.norm = One
    /\ args.m = 2
    /\ args.n = 2
    /\ Lt(Zero, ret.val[1][1])
    /\ Lt(ret.val[2][1], Zero)
    /\ Lt(Zero, ret.val[1][2])
    /\ Lt(Zero, ret.val[2][2])

====
